---- MODULE Spec2Model ----
(***************************************************************************)
(* raygun4reactnative: the RUM monitor (sdk/src/RealUserMonitor.ts), the   *)
(* earlier RUM monitor variant (unnamed/part_000) and the session part of  *)
(* the client (src/RaygunClient.ts), as state machines.                    *)
(*                                                                         *)
(* JavaScript runs one callback at a time: every action below is one       *)
(* synchronous segment of a handler, from its call (or from the settling   *)
(* of the promise it awaits) to its next await.                            *)
(***************************************************************************)
EXTENDS Integers, Sequences, FiniteSets, TLC

VARIABLES
  now,        \* Date.now(), in milliseconds
  rum,        \* the RealUserMonitor instance: its mutable fields
  guids,      \* how many GUIDs getRandomGUID has handed out
  sent,       \* the RUM payloads handed to fetch, in the order of the fetch calls
  tasks,      \* the suspended async calls: each a stack of continuation frames
              \* waiting for the fetch it awaits to settle
  xhr,        \* the _id_ field of every XMLHttpRequest object
  opened,     \* history: whether the last open() on every XMLHttpRequest object
              \* named a url of the ignore list ("" before any open), and
              \* whether the request it opened has been answered since
  emittedFor, \* history: how many NetworkCall events handleResponse emitted per correlation id
  listening,  \* whether the native event listeners of the constructor are registered
  lastCall,   \* history: the last handler that ran, its arguments and what it saw
  \* unnamed/part_000, the earlier RealUserMonitor
  legacy,        \* the instance: lastActiveAt, curRUMSessionId
  legacySent,    \* the payloads sendRUMEvent handed to fetch
  legacyTasks,   \* its suspended async calls
  legacyListening,
  \* src/RaygunClient.ts
  curSession,    \* the module's session: tags, customData, breadcrumbs, user
  GlobalOptions, \* the module's options; defined is FALSE until init has assigned them
  bridge,        \* NativeModules.RaygunNativeBridge: "present" or "absent"
  nativeInitialized, \* what RaygunNativeBridge.hasInitialized() answers
  handlers,      \* how many of init's wrappers the global error handler chain holds
  rumSetups,     \* how often setupRealtimeUserMonitoring has run
  initTasks,     \* the init calls suspended on hasInitialized()
  inits,         \* how often init has been called
  clientCall,    \* history: the last client operation and whether it raised
  basedIds,      \* how many ids getDeviceBasedId has handed out
  sessionNo,     \* which session object curSession holds: getCleanSession makes a new one
  errors,        \* how many errors have been handed to the client
  errTasks,      \* the generateCrashReportPayload calls suspended on getEnvironmentInfo()
  crashReports,  \* the crash reports handed to the bridge or to the JS transport
  built,         \* what the last direct call of generateCrashReportPayload returned
  prevHandled,   \* history: for every error the global handler received, how often the
                 \* handler installed before the first init has been called with it
  seen           \* history: for every suspended generateCrashReportPayload call, the
                 \* values the session it was given has held since the call

rumVars == <<rum, guids, sent, tasks, xhr, opened, emittedFor, listening, lastCall>>
legacyVars == <<legacy, legacySent, legacyTasks, legacyListening>>
sessionVars == <<curSession, clientCall>>
initVars == <<GlobalOptions, bridge, nativeInitialized, handlers, rumSetups, initTasks, inits>>
errorVars == <<errors, errTasks, crashReports, built, prevHandled>>
clientVars == <<sessionVars, initVars, errorVars, sessionNo, seen>>
vars == <<now, rumVars, legacyVars, clientVars, basedIds>>

----------------------------------------------------------------------------
(* Bounds of the model *)

MaxIdlePeriods == 1   \* idle periods the clock runs through after construction
MaxSent == 3          \* payloads handed to fetch
MaxViewLoaded == 1    \* ViewLoaded timings among them
MaxNetworkCall == 2   \* NetworkCall timings among them
MaxTasks == 2         \* async calls suspended at the same time
MaxCallStack == 4     \* frames the engine's call stack holds before RangeError
MaxBasedIds == 2      \* ids getDeviceBasedId hands out
MaxBreadcrumbs == 2   \* breadcrumbs recorded in one session
MaxInits == 2         \* calls of init
MaxViewTime == 2      \* native view timestamps, in half milliseconds
MaxErrors == 1        \* errors handed to the client
MaxFatalErrors == 2   \* errors handed to the client where fatal ones are followed up

----------------------------------------------------------------------------
(* Constants of sdk/src/RealUserMonitor.ts and the constructor's arguments *)

defaultURLIgnoreList == <<"api.raygun.com", "localhost:8081">>
defaultViewIgnoreList == <<>>
SessionRotateThreshold == 30 * 60 * 1000

ignoredURLsArg == <<"ads.example.com">>
ignoredViewsArg == <<  <<"Splash">>  >>
customRealUserMonitoringEndpoint == "rum.example.com/events"
disableNetworkMonitoring == FALSE

ignoredURLs ==
  ignoredURLsArg \o defaultURLIgnoreList
    \o (IF customRealUserMonitoringEndpoint # ""
          THEN <<customRealUserMonitoringEndpoint>> ELSE <<>>)
ignoredViews == ignoredViewsArg \o defaultViewIgnoreList

(* The inputs the environment draws from *)
Urls == {"example.com/a", "api.raygun.com"}
Methods == {"GET"}
Xhrs == {"xhr1", "xhr2"}
\* a view name is a sequence of tokens, so that cleanViewName has text to work on
ViewNames == { <<"Home">>, <<"iOS_View: ", "<", "Main", ":", "0x1", ">">> }
ViewTimes == 0 .. MaxViewTime
\* the instants the clock shows: construction, a millisecond later, and a
\* millisecond after every whole idle period that follows
Times ==
  {SessionRotateThreshold, SessionRotateThreshold + 1}
    \cup { SessionRotateThreshold * (k + 1) + 1 : k \in 1 .. MaxIdlePeriods }
CustomNames == { <<"custom">>, <<"Splash">> }
CustomDurations == {7}
CustomEventTypes == {"ViewLoaded", "NetworkCall", "Unknown"}

NoId == "undefined"          \* xhr._id_ of an object no open() has tagged
DeviceId == "device-1"
NoData == [name |-> <<>>, type |-> "", duration |-> 0, nan |-> FALSE]
NoTime == <<>>               \* an absent optional number; <<t>> is the number t

----------------------------------------------------------------------------
(* Utils (not part of the sources at hand) *)

getDeviceId == DeviceId

getRandomGUID(n) == <<n + 1>>

\* the device id followed by a part that differs from call to call
getDeviceBasedId(n) == <<DeviceId, n + 1>>

shouldIgnoreURL(url, list) == \E i \in 1 .. Len(list) : list[i] = url

shouldIgnoreView(name, list) == \E i \in 1 .. Len(list) : list[i] = name

----------------------------------------------------------------------------
(* RUM session management *)

Ctx == [rum |-> rum, guids |-> guids, sent |-> sent]

generateNewSessionId(ctx) ==
  [ctx EXCEPT !.rum.RealUserMonitoringSessionId = getRandomGUID(ctx.guids),
              !.guids = @ + 1]

\* markSessionInteraction leaving the idle clock alone
markSessionInteractionSkipped(ctx) == ctx

markSessionInteraction(ctx) ==
  [ctx EXCEPT !.rum.lastSessionInteractionTime = now]

generateRealUserMonitorPayload(ctx, eventName, data, timeAt) ==
  [type |-> eventName,
   timestamp |-> IF timeAt # NoTime /\ timeAt[1] # 0 THEN timeAt[1] ELSE now,
   sessionId |-> ctx.rum.RealUserMonitoringSessionId,
   data |-> data]

\* fetch(endpoint, {method: 'POST', body}): the payload is on its way
fetch(ctx, rumMessage) == [ctx EXCEPT !.sent = Append(@, rumMessage)]

\* the call stack is full: the call throws RangeError, which the async function
\* turns into a rejected promise; every caller awaits it without a catch, so the
\* rejection reaches the outermost promise in the microtasks of the same turn,
\* before any other callback runs
RangeError(ctx) == [ctx |-> ctx, outcome |-> "rejected", frames |-> <<>>]

isExpired(ctx) == now - ctx.rum.lastSessionInteractionTime > SessionRotateThreshold

RECURSIVE transmitRealUserMonitoringEvent(_, _, _, _, _)
RECURSIVE rotateRUMSession(_, _)

(* The synchronous part of a call: the context it leaves, whether the promise
   it returns is rejected or pending, and the continuation frames that run
   once the fetch it waits for has settled (innermost first). *)
transmitRealUserMonitoringEvent(ctx, eventName, data, timeAt, depth) ==
  IF depth > MaxCallStack THEN RangeError(ctx)
  ELSE IF isExpired(ctx)
    THEN LET r == rotateRUMSession(ctx, depth + 1) IN
         IF r.outcome = "rejected" THEN r
         ELSE [r EXCEPT !.frames =
                 Append(@, [fn |-> "transmitRealUserMonitoringEvent",
                            eventName |-> eventName, data |-> data,
                            timeAt |-> timeAt])]
    ELSE LET c == markSessionInteraction(ctx) IN
         [ctx |-> fetch(c, generateRealUserMonitorPayload(c, eventName, data, timeAt)),
          outcome |-> "pending", frames |-> <<>>]

rotateRUMSession(ctx, depth) ==
  IF depth > MaxCallStack THEN RangeError(ctx)
  ELSE LET r == transmitRealUserMonitoringEvent(ctx, "SessionEnd", NoData, NoTime,
                                                depth + 1) IN
       IF r.outcome = "rejected" THEN r
       ELSE [r EXCEPT !.frames =
               Append(@, [fn |-> "rotateRUMSession", eventName |-> "",
                          data |-> NoData, timeAt |-> NoTime])]

(* The code after an await, run when the awaited promise has settled *)
resumeFrame(ctx, frame) ==
  IF frame.fn = "rotateRUMSession"
    THEN transmitRealUserMonitoringEvent(
           markSessionInteraction(generateNewSessionId(ctx)),
           "SessionStart", NoData, NoTime, 2)
    ELSE [ctx |-> fetch(ctx, generateRealUserMonitorPayload(
                               ctx, frame.eventName, frame.data, frame.timeAt)),
          outcome |-> "pending", frames |-> <<>>]

----------------------------------------------------------------------------
(* RUM event handlers *)

sendNetworkTimingEvent(ctx, name, sendTime, duration, nan) ==
  transmitRealUserMonitoringEvent(
    ctx, "EventTiming",
    [name |-> name, type |-> "NetworkCall", duration |-> duration, nan |-> nan],
    sendTime, 2)

Resolved(ctx) == [ctx |-> ctx, outcome |-> "resolved", frames |-> <<>>]

sendViewLoadedEvent(ctx, name, duration) ==
  IF shouldIgnoreView(name, ignoredViews) THEN Resolved(ctx)
  ELSE transmitRealUserMonitoringEvent(
         ctx, "EventTiming",
         [name |-> name, type |-> "ViewLoaded", duration |-> duration, nan |-> FALSE],
         NoTime, 2)

\* String.replace(pattern, ""): the first occurrence only
RemoveFirst(s, tok) ==
  IF \E i \in 1 .. Len(s) : s[i] = tok
    THEN LET i == CHOOSE k \in 1 .. Len(s) :
                    s[k] = tok /\ \A j \in 1 .. k - 1 : s[j] # tok
         IN SubSeq(s, 1, i - 1) \o SubSeq(s, i + 1, Len(s))
    ELSE s

\* split(':')[0]
BeforeFirst(s, tok) ==
  IF \E i \in 1 .. Len(s) : s[i] = tok
    THEN LET i == CHOOSE k \in 1 .. Len(s) :
                    s[k] = tok /\ \A j \in 1 .. k - 1 : s[j] # tok
         IN SubSeq(s, 1, i - 1)
    ELSE s

cleanViewName(viewname) ==
  IF Len(viewname) > 0 /\ viewname[1] = "iOS_View: "
    THEN BeforeFirst(RemoveFirst(RemoveFirst(Tail(viewname), "<"), ">"), ":")
    ELSE viewname

\* Math.round of a number given in halves
Math_round(halves) == (halves + 1) \div 2

----------------------------------------------------------------------------
(* The handlers of the RUM monitor, one action per synchronous segment *)

\* outcome: "returned" for a synchronous handler; for an async one, whether the
\* promise it returns is "resolved", "pending" on a send, or "rejected"
\* expired, sentBefore and idBefore are what the call found; xhr is the object a
\* network callback was called for; ended is whether ON_SESSION_END has been
\* delivered
Called(op, outcome) ==
  [op |-> op, outcome |-> outcome, expired |-> isExpired(Ctx),
   sentBefore |-> Len(sent), idBefore |-> rum.RealUserMonitoringSessionId,
   xhr |-> "", ended |-> lastCall.ended]

\* the native side emits a signal nobody listens to
Ignored(signal) ==
  /\ lastCall' = [lastCall EXCEPT !.op = signal, !.outcome = "no listener"]
  /\ UNCHANGED <<now, legacyVars, clientVars, basedIds, rum, guids, sent, tasks, xhr,
                 opened, emittedFor, listening>>

\* what a call leaves behind: the instance, the wire, and its suspended rest
TimingCount(s, type) == Cardinality({i \in 1 .. Len(s) : s[i].data.type = type})

WithinBounds(s) ==
  /\ Len(s) <= MaxSent
  /\ TimingCount(s, "ViewLoaded") <= MaxViewLoaded
  /\ TimingCount(s, "NetworkCall") <= MaxNetworkCall

Leave(r) ==
  /\ WithinBounds(r.ctx.sent)
  /\ r.frames # <<>> => Len(tasks) < MaxTasks
  /\ rum' = r.ctx.rum
  /\ guids' = r.ctx.guids
  /\ sent' = r.ctx.sent
  /\ tasks' = IF r.frames # <<>> THEN Append(tasks, r.frames) ELSE tasks

Tick(t) ==
  /\ t > now
  /\ now' = t
  /\ UNCHANGED <<rumVars, legacyVars, clientVars, basedIds>>

\* ON_SESSION_PAUSE -> markSessionInteraction
OnSessionPause ==
  IF ~listening THEN Ignored("signal") ELSE
  /\ Leave(Resolved(markSessionInteraction(Ctx)))
  /\ lastCall' = Called("markSessionInteraction", "returned")
  /\ UNCHANGED <<now, legacyVars, clientVars, basedIds, xhr, opened, emittedFor, listening>>

\* ON_SESSION_RESUME -> rotateRUMSession
OnSessionResume ==
  IF ~listening THEN Ignored("signal") ELSE
  /\ LET r == rotateRUMSession(Ctx, 1) IN
       /\ Leave(r)
       /\ lastCall' = Called("rotateRUMSession", r.outcome)
  /\ UNCHANGED <<now, legacyVars, clientVars, basedIds, xhr, opened, emittedFor, listening>>

\* viewBeginsLoading calling loadingViews.set without asking loadingViews.has
viewBeginsLoadingOverwriting(viewname, time) ==
  /\ rum' = [rum EXCEPT !.loadingViews = (viewname :> time) @@ @]
  /\ lastCall' = Called("viewBeginsLoading",
                        IF viewname \in DOMAIN rum.loadingViews
                          THEN "already loading" ELSE "returned")
  /\ UNCHANGED <<now, legacyVars, clientVars, basedIds, guids, sent, tasks, xhr, opened, emittedFor, listening>>

\* the outcome tells the early return for a view that is already loading from
\* the return after loadingViews.set
viewBeginsLoading(viewname, time) ==
  /\ rum' = IF viewname \in DOMAIN rum.loadingViews THEN rum
            ELSE [rum EXCEPT !.loadingViews = (viewname :> time) @@ @]
  /\ lastCall' = Called("viewBeginsLoading",
                        IF viewname \in DOMAIN rum.loadingViews
                          THEN "already loading" ELSE "returned")
  /\ UNCHANGED <<now, legacyVars, clientVars, basedIds, guids, sent, tasks, xhr, opened, emittedFor, listening>>

Without(f, k) == [x \in DOMAIN f \ {k} |-> f[x]]

viewFinishesLoadingResult(viewname, time) ==
  IF viewname \in DOMAIN rum.loadingViews
    THEN LET viewLoadStartTime == rum.loadingViews[viewname] IN
         IF viewLoadStartTime # 0
           THEN sendViewLoadedEvent(
                  [Ctx EXCEPT !.rum.loadingViews = Without(@, viewname)],
                  cleanViewName(viewname),
                  Math_round(time - viewLoadStartTime))
           ELSE Resolved(Ctx)
    ELSE Resolved(Ctx)

viewFinishesLoading(viewname, time) ==
  /\ LET r == viewFinishesLoadingResult(viewname, time) IN
       /\ Leave(r)
       \* a listener: the promise of sendViewLoadedEvent is dropped
       /\ lastCall' = Called("viewFinishesLoading", r.outcome)
  /\ UNCHANGED <<now, legacyVars, clientVars, basedIds, xhr, opened, emittedFor, listening>>

\* ON_VIEW_LOADING -> viewBeginsLoading
OnViewLoading(viewname, time) ==
  IF listening THEN viewBeginsLoading(viewname, time) ELSE Ignored("signal")

\* ON_VIEW_LOADED -> viewFinishesLoading
OnViewLoaded(viewname, time) ==
  IF listening THEN viewFinishesLoading(viewname, time) ELSE Ignored("signal")

\* ON_SESSION_END delivered to a listener that removes nothing
OnSessionEndRemovingNothing ==
  /\ lastCall' = [Called("onSessionEnd", "returned") EXCEPT !.ended = TRUE]
  /\ UNCHANGED <<now, legacyVars, clientVars, basedIds, rum, guids, sent, tasks, xhr,
                 opened, emittedFor, listening>>

\* ON_SESSION_END: every listener is removed
OnSessionEnd ==
  IF ~listening THEN Ignored("signal") ELSE
  /\ listening' = FALSE
  /\ lastCall' = [Called("onSessionEnd", "returned") EXCEPT !.ended = TRUE]
  /\ UNCHANGED <<now, legacyVars, clientVars, basedIds, rum, guids, sent, tasks, xhr, opened, emittedFor>>

sendCustomRUMEvent(eventType, name, duration) ==
  /\ LET r == IF eventType = "ViewLoaded"
                THEN sendViewLoadedEvent(Ctx, name, duration)
              ELSE IF eventType = "NetworkCall"
                THEN sendNetworkTimingEvent(Ctx, name, <<now - duration>>, duration, FALSE)
              ELSE Resolved(Ctx)
     IN /\ Leave(r)
        /\ lastCall' = Called("sendCustomRUMEvent", r.outcome)
  /\ UNCHANGED <<now, legacyVars, clientVars, basedIds, xhr, opened, emittedFor, listening>>

----------------------------------------------------------------------------
(* Network monitoring: the callbacks handed to XHRInterceptor *)

handleRequestOpen(method, url, x) ==
  /\ ~disableNetworkMonitoring
  /\ IF shouldIgnoreURL(url, ignoredURLs)
       THEN UNCHANGED <<rum, xhr>>
       ELSE LET id == getDeviceId IN
            /\ xhr' = [xhr EXCEPT ![x] = id]
            /\ rum' = [rum EXCEPT !.requests =
                         (id :> [name |-> <<method, " ", url>>, sendTime |-> NoTime]) @@ @]
  /\ opened' = [opened EXCEPT ![x] = IF shouldIgnoreURL(url, ignoredURLs)
                                        THEN "ignored" ELSE "monitored"]
  /\ lastCall' = [Called("handleRequestOpen", "returned") EXCEPT !.xhr = x]
  /\ UNCHANGED <<now, legacyVars, clientVars, basedIds, guids, sent, tasks, emittedFor, listening>>

handleRequestSend(x) ==
  /\ ~disableNetworkMonitoring
  /\ rum' = IF xhr[x] \in DOMAIN rum.requests
              THEN [rum EXCEPT !.requests[xhr[x]].sendTime = <<now>>]
              ELSE rum
  /\ lastCall' = [Called("handleRequestSend", "returned") EXCEPT !.xhr = x]
  /\ UNCHANGED <<now, legacyVars, clientVars, basedIds, guids, sent, tasks, xhr, opened, emittedFor, listening>>

\* handleResponse without its 'if (requestMeta)': it reports whatever it is called for
handleResponseUnguarded(x) ==
  IF xhr[x] \in DOMAIN rum.requests
    THEN sendNetworkTimingEvent(Ctx, rum.requests[xhr[x]].name,
                                rum.requests[xhr[x]].sendTime, 0, TRUE)
    ELSE sendNetworkTimingEvent(Ctx, <<>>, NoTime, 0, TRUE)

handleResponseResult(x) ==
  IF xhr[x] \in DOMAIN rum.requests
    THEN LET requestMeta == rum.requests[xhr[x]]
             sendTime == requestMeta.sendTime
         IN IF sendTime = NoTime
              \* Date.now() - undefined is NaN
              THEN sendNetworkTimingEvent(Ctx, requestMeta.name, NoTime, 0, TRUE)
              ELSE sendNetworkTimingEvent(Ctx, requestMeta.name, sendTime,
                                          now - sendTime[1], FALSE)
    ELSE Resolved(Ctx)

handleResponse(x) ==
  /\ ~disableNetworkMonitoring
  /\ LET r == handleResponseResult(x) IN
       /\ Leave(r)
       /\ emittedFor' = IF Len(r.ctx.sent) > Len(sent)
                          THEN [emittedFor EXCEPT ![xhr[x]] = @ + 1]
                          ELSE emittedFor
       /\ lastCall' = [Called("handleResponse", r.outcome) EXCEPT !.xhr = x]
  /\ opened' = [opened EXCEPT ![x] = IF @ = "monitored" THEN "answered" ELSE @]
  /\ UNCHANGED <<now, legacyVars, clientVars, basedIds, xhr, listening>>

\* the fetch a suspended call awaits has settled (fulfilled, or failed and
\* caught by the .catch of transmitRealUserMonitoringEvent): its next segment runs
FetchSettles(i) ==
  /\ i \in 1 .. Len(tasks)
  /\ LET r == resumeFrame(Ctx, Head(tasks[i]))
         rest == IF r.outcome = "rejected" THEN <<>> ELSE r.frames \o Tail(tasks[i])
         others == SubSeq(tasks, 1, i - 1) \o SubSeq(tasks, i + 1, Len(tasks))
     IN /\ WithinBounds(r.ctx.sent)
        /\ rum' = r.ctx.rum
        /\ guids' = r.ctx.guids
        /\ sent' = r.ctx.sent
        /\ tasks' = IF rest = <<>> THEN others ELSE Append(others, rest)
  /\ UNCHANGED <<now, legacyVars, clientVars, basedIds, xhr, opened, emittedFor, listening, lastCall>>

----------------------------------------------------------------------------
(* The state the constructor leaves *)

Blank ==
  [rum |-> [lastSessionInteractionTime |-> SessionRotateThreshold,
            RealUserMonitoringSessionId |-> <<>>,
            loadingViews |-> <<>>,
            requests |-> <<>>],
   guids |-> 0, sent |-> <<>>]

RumInit ==
  /\ now = SessionRotateThreshold
  /\ LET r == transmitRealUserMonitoringEvent(
                generateNewSessionId(markSessionInteraction(Blank)),
                "SessionStart", NoData, NoTime, 2)
     IN /\ rum = r.ctx.rum
        /\ guids = r.ctx.guids
        /\ sent = r.ctx.sent
  /\ tasks = <<>>
  /\ xhr = [x \in Xhrs |-> NoId]
  /\ opened = [x \in Xhrs |-> ""]
  /\ emittedFor = [i \in {NoId, DeviceId} |-> 0]
  /\ listening = TRUE
  /\ lastCall = [op |-> "constructor", outcome |-> "returned", expired |-> FALSE,
                 sentBefore |-> 0, idBefore |-> <<>>, xhr |-> "", ended |-> FALSE]

\* the clock, the lifecycle signals and the settling of awaited sends
LifecycleNext ==
  \/ \E t \in Times : Tick(t)
  \/ OnSessionPause
  \/ OnSessionResume
  \/ OnSessionEnd
  \/ \E i \in 1 .. MaxTasks : FetchSettles(i)

CustomNext ==
  \E e \in CustomEventTypes, n \in CustomNames, d \in CustomDurations :
    sendCustomRUMEvent(e, n, d)

ViewNext ==
  \/ \E v \in ViewNames, t \in ViewTimes : OnViewLoading(v, t)
  \/ \E v \in ViewNames, t \in ViewTimes : OnViewLoaded(v, t)

NetworkNext ==
  \/ \E m \in Methods, u \in Urls, x \in Xhrs : handleRequestOpen(m, u, x)
  \/ \E x \in Xhrs : handleRequestSend(x)
  \/ \E x \in Xhrs : handleResponse(x)

RumNext == LifecycleNext \/ CustomNext \/ ViewNext \/ NetworkNext

----------------------------------------------------------------------------
(* unnamed/part_000: the earlier RealUserMonitor. It keeps no idle check in
   its send path: sendRUMEvent sends under whatever curRUMSessionId holds. *)

LegacyCtx == [legacy |-> legacy, sent |-> legacySent, ids |-> basedIds]

sendRUMEvent(ctx, eventName, data, timeAt) ==
  [ctx EXCEPT !.sent =
     Append(@, [type |-> eventName,
                timestamp |-> IF timeAt # NoTime /\ timeAt[1] # 0 THEN timeAt[1] ELSE now,
                sessionId |-> ctx.legacy.curRUMSessionId,
                data |-> data])]

LegacyNewSessionId(ctx) ==
  [ctx EXCEPT !.legacy.curRUMSessionId = getDeviceBasedId(ctx.ids), !.ids = @ + 1]

LegacyFrame(fn, data) == [fn |-> fn, data |-> data]

LegacyLeave(ctx, frames) ==
  /\ Len(ctx.sent) <= MaxSent
  /\ ctx.ids <= MaxBasedIds
  /\ frames # <<>> => Len(legacyTasks) < MaxTasks
  /\ legacy' = ctx.legacy
  /\ legacySent' = ctx.sent
  /\ basedIds' = ctx.ids
  /\ legacyTasks' = IF frames # <<>> THEN Append(legacyTasks, frames) ELSE legacyTasks

\* the context reportStartupTime leaves at its first await or at its end, and
\* the frame that waits
reportStartupTime(ctx, name, duration) ==
  LET data == [name |-> name, type |-> "ViewLoaded", duration |-> duration, nan |-> FALSE]
  IN IF ctx.legacy.curRUMSessionId = <<>>
       THEN [ctx |-> sendRUMEvent(LegacyNewSessionId(ctx), "SessionStart", NoData, NoTime),
             frames |-> <<LegacyFrame("reportStartupTime", data)>>]
       ELSE [ctx |-> sendRUMEvent(ctx, "EventTiming", data, NoTime), frames |-> <<>>]

sendNetworkTimingEventCallback(ctx, name, sendTime, duration) ==
  [ctx |-> sendRUMEvent(ctx, "EventTiming",
                        [name |-> name, type |-> "NetworkCall",
                         duration |-> duration, nan |-> FALSE],
                        <<sendTime>>),
   frames |-> <<>>]

LegacyRotateRUMSession(ctx) ==
  IF now - ctx.legacy.lastActiveAt > SessionRotateThreshold
    THEN [ctx |-> sendRUMEvent([ctx EXCEPT !.legacy.lastActiveAt = now],
                               "SessionEnd", NoData, NoTime),
          frames |-> <<LegacyFrame("rotateRUMSession", NoData)>>]
    ELSE [ctx |-> ctx, frames |-> <<>>]

\* ON_START -> reportStartupTime
LegacyOnStart(name, duration) ==
  IF ~legacyListening THEN UNCHANGED vars ELSE
  /\ LET r == reportStartupTime(LegacyCtx, name, duration) IN LegacyLeave(r.ctx, r.frames)
  /\ UNCHANGED <<now, rumVars, clientVars, legacyListening>>

\* ON_PAUSE -> markLastActiveTime
markLastActiveTime ==
  IF ~legacyListening THEN UNCHANGED vars ELSE
  /\ legacy' = [legacy EXCEPT !.lastActiveAt = now]
  /\ UNCHANGED <<now, rumVars, clientVars, legacySent, legacyTasks, legacyListening, basedIds>>

\* ON_RESUME -> rotateRUMSession
LegacyOnResume ==
  IF ~legacyListening THEN UNCHANGED vars ELSE
  /\ LET r == LegacyRotateRUMSession(LegacyCtx) IN LegacyLeave(r.ctx, r.frames)
  /\ UNCHANGED <<now, rumVars, clientVars, legacyListening>>

\* ON_DESTROY: every listener is removed
LegacyOnDestroy ==
  IF ~legacyListening THEN UNCHANGED vars ELSE
  /\ legacyListening' = FALSE
  /\ UNCHANGED <<now, rumVars, clientVars, legacy, legacySent, legacyTasks, basedIds>>

\* NetworkMonitor reports a finished request
LegacyNetworkTiming(name, duration) ==
  /\ LET r == sendNetworkTimingEventCallback(LegacyCtx, name, now, duration)
     IN LegacyLeave(r.ctx, r.frames)
  /\ UNCHANGED <<now, rumVars, clientVars, legacyListening>>

LegacySendCustomRUMEvent(eventType, name, duration) ==
  /\ LET r == IF eventType = "ViewLoaded"
                THEN reportStartupTime(LegacyCtx, name, duration)
              ELSE IF eventType = "NetworkCall"
                THEN sendNetworkTimingEventCallback(LegacyCtx, name, now - duration, duration)
              ELSE [ctx |-> LegacyCtx, frames |-> <<>>]
     IN LegacyLeave(r.ctx, r.frames)
  /\ UNCHANGED <<now, rumVars, clientVars, legacyListening>>

\* the send a suspended call awaits has settled: the code after the await runs
LegacyFetchSettles(i) ==
  /\ i \in 1 .. Len(legacyTasks)
  /\ LET frame == Head(legacyTasks[i])
         ctx == IF frame.fn = "rotateRUMSession"
                  THEN sendRUMEvent(LegacyNewSessionId(LegacyCtx), "SessionStart",
                                    NoData, NoTime)
                  ELSE sendRUMEvent(LegacyCtx, "EventTiming", frame.data, NoTime)
     IN /\ Len(ctx.sent) <= MaxSent
        /\ ctx.ids <= MaxBasedIds
        /\ legacy' = ctx.legacy
        /\ legacySent' = ctx.sent
        /\ basedIds' = ctx.ids
        /\ legacyTasks' = SubSeq(legacyTasks, 1, i - 1)
                            \o SubSeq(legacyTasks, i + 1, Len(legacyTasks))
  /\ UNCHANGED <<now, rumVars, clientVars, legacyListening>>

LegacyInit ==
  /\ legacy = [lastActiveAt |-> SessionRotateThreshold, curRUMSessionId |-> <<>>]
  /\ legacySent = <<>>
  /\ legacyTasks = <<>>
  /\ legacyListening = TRUE

LegacyNext ==
  \/ \E t \in Times : Tick(t)
  \/ \E d \in CustomDurations : LegacyOnStart(<<"Home">>, d)
  \/ markLastActiveTime
  \/ LegacyOnResume
  \/ LegacyOnDestroy
  \/ \E d \in CustomDurations : LegacyNetworkTiming(<<"GET", " ", "example.com/a">>, d)
  \/ \E e \in CustomEventTypes, d \in CustomDurations :
       LegacySendCustomRUMEvent(e, <<"custom">>, d)
  \/ \E i \in 1 .. MaxTasks : LegacyFetchSettles(i)

----------------------------------------------------------------------------
(* src/RaygunClient.ts: the session and its mutators *)

\* the arguments of addTag(...tags), in the order given
TagInputs == { <<"a">>, <<"a", "a">> }
CustomDataInputs == { [k1 |-> "v1"], [k1 |-> "v2"] }
Updaters == {"keep", "empty"}
BreadcrumbDetails == { [category |-> "nav", level |-> "warning"] }
BreadcrumbMessages == {"tapped", "scrolled"}
UserInputs ==
  { [type |-> "string", value |-> <<>>],
    [type |-> "string", value |-> <<"alice">>],
    [type |-> "object",
     value |-> [identifier |-> <<"bob">>, email |-> "bob@example.com",
                isAnonymous |-> FALSE]] }
\* onBeforeSend: "undefined" when the caller gives no hook; a hook is named
\* after what it returns
InitOptions ==
  { [enableNativeCrashReporting |-> nc, enableRUM |-> TRUE, onBeforeSend |-> "undefined"] :
      nc \in BOOLEAN }

\* Object.assign({}, target, source), and the object spread
Assign(target, source) ==
  [k \in DOMAIN target \cup DOMAIN source |->
     IF k \in DOMAIN source THEN source[k] ELSE target[k]]

\* Array.push in the place of Set.add
ArrayPush(set, value) == Append(set, value)

\* Set.add: a Set keeps its elements in insertion order, each once
SetAdd(set, value) ==
  IF \E i \in 1 .. Len(set) : set[i] = value THEN set ELSE Append(set, value)

\* values.forEach(value => set.add(value))
RECURSIVE SetAddAll(_, _)
SetAddAll(set, values) ==
  IF values = <<>> THEN set ELSE SetAddAll(SetAdd(set, Head(values)), Tail(values))

getCleanSession(n) ==
  [tags |-> <<"React Native">>,
   customData |-> <<>>,
   breadcrumbs |-> <<>>,
   user |-> [identifier |-> <<"anonymous-">> \o getDeviceBasedId(n)]]

\* if (GlobalOptions.enableNativeCrashReporting) RaygunNativeBridge.<method>(...):
\* how the statement ends. Reading a property of the undefined GlobalOptions, or
\* of an absent bridge, throws TypeError; fails is the bridge method throwing.
NativeMirror(fails) ==
  IF ~GlobalOptions.defined THEN "threw"
  ELSE IF ~GlobalOptions.enableNativeCrashReporting THEN "returned"
  ELSE IF bridge = "absent" THEN "threw"
  ELSE IF fails THEN "threw"
  ELSE "returned"

\* the session holds something a clean session does not
isDirty(session) ==
  \/ session.tags # <<"React Native">>
  \/ session.customData # <<>>
  \/ session.breadcrumbs # <<>>
  \/ "isAnonymous" \in DOMAIN session.user

\* the last call of a client operation: how it ended, and whether the session
\* it found was dirty
ClientCalled(op, outcome) ==
  [op |-> op, outcome |-> outcome, dirtyBefore |-> isDirty(curSession)]

\* the session a suspended generateCrashReportPayload call was given, as it was
\* at the call
TaskSession(task) ==
  [tags |-> task.tags, customData |-> task.customData,
   breadcrumbs |-> task.breadcrumbs, user |-> task.user]

\* history of a step: kept is the history of the calls that stay suspended, a
\* call that begins starts its own, and the value the module's session has
\* after the step is added for the calls that were given that session object
Observe(kept) ==
  seen' = [i \in 1 .. Len(errTasks') |->
             (IF i <= Len(kept) THEN kept[i] ELSE {TaskSession(errTasks'[i])})
               \cup (IF errTasks'[i].of = <<sessionNo'>> THEN {curSession'} ELSE {})]

\* addTag with its two statements swapped: the bridge first, the tags after
addTagMirrorFirst(tags, fails) ==
  /\ LET outcome == NativeMirror(fails) IN
       /\ clientCall' = ClientCalled("addTag", outcome)
       /\ curSession' = IF outcome = "threw" THEN curSession
                        ELSE [curSession EXCEPT !.tags = SetAddAll(@, tags)]
  /\ UNCHANGED <<now, rumVars, legacyVars, errorVars, sessionNo, initVars, basedIds>>
  /\ Observe(seen)

addTag(tags, fails) ==
  /\ curSession' = [curSession EXCEPT !.tags = SetAddAll(@, tags)]
  /\ clientCall' = ClientCalled("addTag", NativeMirror(fails))
  /\ UNCHANGED <<now, rumVars, legacyVars, errorVars, sessionNo, initVars, basedIds>>
  /\ Observe(seen)

\* setUser's object with every string taken for an anonymous user
userObjAlwaysAnonymous(user, n) ==
  IF user.type = "string"
    THEN [firstName |-> "", fullName |-> "", email |-> "", isAnonymous |-> TRUE,
          identifier |-> <<"anonymous-">> \o getDeviceBasedId(n)]
    ELSE [firstName |-> "", fullName |-> "", email |-> "", isAnonymous |-> TRUE,
          identifier |-> user.value.identifier]

userObjOf(user, n) ==
  Assign([firstName |-> "", fullName |-> "", email |-> "", isAnonymous |-> FALSE],
         IF user.type = "string"
           THEN IF user.value # <<>>
                  THEN [identifier |-> user.value]
                  ELSE [identifier |-> <<"anonymous-">> \o getDeviceBasedId(n),
                        isAnonymous |-> TRUE]
           ELSE user.value)

setUser(user, fails) ==
  /\ LET anonymous == user.type = "string" /\ user.value = <<>> IN
       /\ anonymous => basedIds < MaxBasedIds
       /\ basedIds' = IF anonymous THEN basedIds + 1 ELSE basedIds
  /\ curSession' = [curSession EXCEPT !.user = userObjOf(user, basedIds)]
  /\ clientCall' = ClientCalled("setUser", NativeMirror(fails))
  /\ UNCHANGED <<now, rumVars, legacyVars, errorVars, sessionNo, initVars>>
  /\ Observe(seen)

addCustomData(customData, fails) ==
  /\ curSession' = [curSession EXCEPT !.customData = Assign(@, customData)]
  /\ clientCall' = ClientCalled("addCustomData", NativeMirror(fails))
  /\ UNCHANGED <<now, rumVars, legacyVars, errorVars, sessionNo, initVars, basedIds>>
  /\ Observe(seen)

ApplyUpdater(updater, customData) == IF updater = "empty" THEN <<>> ELSE customData

updateCustomData(updater, fails) ==
  /\ curSession' = [curSession EXCEPT !.customData = ApplyUpdater(updater, @)]
  /\ clientCall' = ClientCalled("updateCustomData", NativeMirror(fails))
  /\ UNCHANGED <<now, rumVars, legacyVars, errorVars, sessionNo, initVars, basedIds>>
  /\ Observe(seen)

\* recordBreadcrumb with Array.unshift in the place of Array.push
recordBreadcrumbUnshift(message, details, fails) ==
  /\ Len(curSession.breadcrumbs) < MaxBreadcrumbs
  /\ LET breadcrumb ==
           Assign(Assign([customData |-> <<>>, category |-> "", level |-> "info",
                          message |-> message], details),
                  [timestamp |-> now])
     IN curSession' = [curSession EXCEPT !.breadcrumbs = <<breadcrumb>> \o @]
  /\ clientCall' = ClientCalled("recordBreadcrumb", NativeMirror(fails))
  /\ UNCHANGED <<now, rumVars, legacyVars, errorVars, sessionNo, initVars, basedIds>>
  /\ Observe(seen)

recordBreadcrumb(message, details, fails) ==
  /\ Len(curSession.breadcrumbs) < MaxBreadcrumbs
  /\ LET breadcrumb ==
           Assign(Assign([customData |-> <<>>, category |-> "", level |-> "info",
                          message |-> message], details),
                  [timestamp |-> now])
     IN curSession' = [curSession EXCEPT !.breadcrumbs = Append(@, breadcrumb)]
  /\ clientCall' = ClientCalled("recordBreadcrumb", NativeMirror(fails))
  /\ UNCHANGED <<now, rumVars, legacyVars, errorVars, sessionNo, initVars, basedIds>>
  /\ Observe(seen)

\* clearSession with its two statements swapped: the bridge first, the reset after
clearSessionMirrorFirst(fails) ==
  /\ LET outcome == NativeMirror(fails) IN
       /\ clientCall' = ClientCalled("clearSession", outcome)
       /\ IF outcome = "threw"
            THEN UNCHANGED <<curSession, basedIds, sessionNo>>
            ELSE /\ basedIds < MaxBasedIds
                 /\ curSession' = getCleanSession(basedIds)
                 /\ basedIds' = basedIds + 1
                 /\ sessionNo' = sessionNo + 1
  /\ UNCHANGED <<now, rumVars, legacyVars, errorVars, initVars>>
  /\ Observe(seen)

\* the Set and the array of a session object that clearSession is about to
\* replace stay as they are now for the calls suspended with them
Detached(suspended) ==
  [i \in 1 .. Len(suspended) |->
     IF suspended[i].of = <<sessionNo>>
       THEN [suspended[i] EXCEPT !.tags = curSession.tags,
                                 !.breadcrumbs = curSession.breadcrumbs]
       ELSE suspended[i]]

clearSession(fails) ==
  /\ basedIds < MaxBasedIds
  /\ curSession' = getCleanSession(basedIds)
  /\ basedIds' = basedIds + 1
  /\ sessionNo' = sessionNo + 1
  /\ clientCall' = ClientCalled("clearSession", NativeMirror(fails))
  /\ errTasks' = Detached(errTasks)
  /\ UNCHANGED <<now, rumVars, legacyVars, errors, crashReports, built, prevHandled, initVars>>
  /\ Observe(seen)

\* the module sends the event through realtime-user-monitor when RUM is enabled
sendRUMTimingEvent ==
  /\ clientCall' = ClientCalled("sendRUMTimingEvent",
                                IF ~GlobalOptions.defined THEN "threw" ELSE "returned")
  /\ UNCHANGED <<now, rumVars, legacyVars, errorVars, sessionNo, curSession, initVars, basedIds, seen>>

\* init from its start, or from the answer of hasInitialized(), to its end:
\* the options it reads are the module's at that moment
initRest(options, useNativeCR, outcomeOp) ==
  /\ rumSetups' = IF options.enableRUM THEN rumSetups + 1 ELSE rumSetups
  /\ IF (useNativeCR \/ options.enableRUM) /\ bridge = "absent"
       \* RaygunNativeBridge.init of an absent bridge: TypeError, the promise rejects
       THEN /\ clientCall' = ClientCalled(outcomeOp, "rejected")
            /\ UNCHANGED <<nativeInitialized, handlers>>
       ELSE /\ nativeInitialized' = (nativeInitialized \/ useNativeCR \/ options.enableRUM)
            /\ handlers' = handlers + 1
            /\ clientCall' = ClientCalled(outcomeOp, "resolved true")

init(options) ==
  /\ inits < MaxInits
  /\ inits' = inits + 1
  /\ GlobalOptions' = [defined |-> TRUE,
                       enableNativeCrashReporting |-> options.enableNativeCrashReporting,
                       enableRUM |-> options.enableRUM,
                       onBeforeSend |-> options.onBeforeSend]
  /\ LET useNativeCR == options.enableNativeCrashReporting /\ bridge = "present" IN
       IF useNativeCR
         THEN /\ initTasks' = Append(initTasks, [alreadyInitialized |-> nativeInitialized])
              /\ clientCall' = ClientCalled("init", "pending")
              /\ UNCHANGED <<nativeInitialized, handlers, rumSetups>>
         ELSE /\ initRest(options, FALSE, "init")
              /\ UNCHANGED initTasks
  /\ UNCHANGED <<now, rumVars, legacyVars, errorVars, sessionNo, curSession, bridge, basedIds, seen>>

\* hasInitialized() has answered
initResumes(i) ==
  /\ i \in 1 .. Len(initTasks)
  /\ initTasks' = SubSeq(initTasks, 1, i - 1) \o SubSeq(initTasks, i + 1, Len(initTasks))
  /\ IF initTasks[i].alreadyInitialized
       THEN /\ clientCall' = ClientCalled("init resumed", "resolved false")
            /\ UNCHANGED <<nativeInitialized, handlers, rumSetups>>
       ELSE initRest(GlobalOptions, TRUE, "init resumed")
  /\ UNCHANGED <<now, rumVars, legacyVars, errorVars, sessionNo, curSession, GlobalOptions, bridge, inits, basedIds, seen>>

ClientInit ==
  /\ curSession = getCleanSession(0)
  /\ nativeInitialized = FALSE
  /\ handlers = 0
  /\ rumSetups = 0
  /\ initTasks = <<>>
  /\ inits = 0
  /\ basedIds = 1
  /\ GlobalOptions = [defined |-> FALSE, enableNativeCrashReporting |-> FALSE,
                      enableRUM |-> FALSE, onBeforeSend |-> "undefined"]
  /\ sessionNo = 1
  /\ errors = 0
  /\ errTasks = <<>>
  /\ crashReports = <<>>
  /\ built = <<>>
  /\ prevHandled = <<>>
  /\ seen = <<>>
  /\ bridge \in {"present", "absent"}
  /\ clientCall = ClientCalled("load", "returned")

ClientNext ==
  \/ \E tags \in TagInputs, fails \in BOOLEAN : addTag(tags, fails)
  \/ \E user \in UserInputs, fails \in BOOLEAN : setUser(user, fails)
  \/ \E customData \in CustomDataInputs, fails \in BOOLEAN : addCustomData(customData, fails)
  \/ \E updater \in Updaters, fails \in BOOLEAN : updateCustomData(updater, fails)
  \/ \E details \in BreadcrumbDetails, fails \in BOOLEAN :
       recordBreadcrumb("tapped", details, fails)
  \/ \E fails \in BOOLEAN : clearSession(fails)
  \/ sendRUMTimingEvent
  \/ \E options \in InitOptions : init(options)
  \/ \E i \in 1 .. MaxInits : initResumes(i)

\* the session under a trail of different breadcrumbs, with one call of every
\* other mutator in between
MutatorNext ==
  \/ \E message \in BreadcrumbMessages, details \in BreadcrumbDetails, fails \in BOOLEAN :
       recordBreadcrumb(message, details, fails)
  \/ \E fails \in BOOLEAN : clearSession(fails)
  \/ \E fails \in BOOLEAN : addTag(<<"a">>, fails)
  \/ \E fails \in BOOLEAN : setUser([type |-> "string", value |-> <<"alice">>], fails)
  \/ \E fails \in BOOLEAN : addCustomData([k1 |-> "v1"], fails)
  \/ \E fails \in BOOLEAN : updateCustomData("empty", fails)
  \/ \E options \in InitOptions : init(options)
  \/ \E i \in 1 .. MaxInits : initResumes(i)

----------------------------------------------------------------------------
(* src/RaygunClient.ts: crash reporting *)

\* __DEV__: the release build, where the stack is not symbolicated
DEV == FALSE

\* a stack frame; every field is optional (<<>> is undefined)
FrameA == [file |-> <<"a.js">>, methodName |-> <<>>, lineNumber |-> <<5>>, column |-> <<2>>]
FrameB == [file |-> <<"b.js">>, methodName |-> <<"run">>, lineNumber |-> <<9>>, column |-> <<1>>]
NoFrameFields == [file |-> <<>>, methodName |-> <<>>, lineNumber |-> <<>>, column |-> <<>>]

\* an error: present is FALSE for undefined/null; stack is what parseErrorStack
\* reads out of error.stack, <<>> when the error has none
NoError == [present |-> FALSE, message |-> "", stack |-> <<>>]
ErrorInputs ==
  { NoError,
    [present |-> TRUE, message |-> "boom", stack |-> <<>>],
    [present |-> TRUE, message |-> "boom", stack |-> <<FrameA, FrameB>>] }
FatalInputs == {TRUE, FALSE}
ErrorInitOptions ==
  { [enableNativeCrashReporting |-> nc, enableRUM |-> FALSE, onBeforeSend |-> hook] :
      nc \in BOOLEAN, hook \in {"undefined", "identity", "falsy"} }

\* the stackFrames argument: an array of frames, or one object that is not an array
ArrayOf(frames) == [isArray |-> TRUE, items |-> frames]
NotArray(obj) == [isArray |-> FALSE, items |-> <<obj>>]

parseErrorStack(error) == error.stack

\* { stack: cleanFilePath(stackFrame) }: an object with none of a frame's fields
cleanedStackFrames(stackFrame) ==
  IF DEV THEN ArrayOf(stackFrame) ELSE NotArray(NoFrameFields)

\* convertToCrashReportingStackFrame with lineNumber and column mixed up
convertSwappingLineAndColumn(frame) ==
  [FileName |-> frame.file,
   MethodName |-> frame.methodName,
   LineNumber |-> frame.column,
   ColumnNumber |-> frame.lineNumber,
   ClassName |-> <<>>]

convertToCrashReportingStackFrame(frame) ==
  [FileName |-> frame.file,
   MethodName |-> IF frame.methodName \in {<<>>, <<"">>} THEN <<"[anonymous]">>
                  ELSE frame.methodName,
   LineNumber |-> frame.lineNumber,
   ColumnNumber |-> frame.column,
   ClassName |-> <<"line ", frame.lineNumber, ", column ", frame.column>>]

\* helper.upperFirst (not part of the sources at hand): every key with its
\* first letter in upper case
UpperKey ==
  [identifier |-> "Identifier", isAnonymous |-> "IsAnonymous", email |-> "Email",
   firstName |-> "FirstName", fullName |-> "FullName", customData |-> "CustomData",
   category |-> "Category", level |-> "Level", message |-> "Message",
   timestamp |-> "Timestamp"]

upperFirstObject(obj) ==
  [K \in {UpperKey[k] : k \in DOMAIN obj} |->
     obj[CHOOSE k \in DOMAIN obj : UpperKey[k] = K]]

upperFirstArray(arr) == [i \in 1 .. Len(arr) |-> upperFirstObject(arr[i])]

\* the object generateCrashReportPayload returns, from what it reads after
\* getEnvironmentInfo() has answered
CrashReportPayload(error, stackFrames, tags, user, customData, breadcrumbs) ==
  [Message |-> IF error.present THEN error.message ELSE "",
   StackTrace |-> IF stackFrames.isArray
                    THEN [i \in 1 .. Len(stackFrames.items) |->
                            convertToCrashReportingStackFrame(stackFrames.items[i])]
                    ELSE <<convertToCrashReportingStackFrame(stackFrames.items[1])>>,
   UserCustomData |-> customData,
   Tags |-> tags,
   User |-> upperFirstObject(user),
   Breadcrumbs |-> upperFirstArray(breadcrumbs)]

\* generateCrashReportPayload up to its await: it destructures the session it
\* is given (tags and breadcrumbs are the session's own Set and array, which
\* later calls change in place; of is the session object they belong to, <<>>
\* for a session that is not the module's)
generateCrashReportPayload(error, stackFrames, session, of, caller, no, level, isFatal) ==
  [caller |-> caller, no |-> no, level |-> level, isFatal |-> isFatal,
   error |-> error, stackFrames |-> stackFrames, of |-> of,
   tags |-> session.tags, breadcrumbs |-> session.breadcrumbs,
   user |-> session.user, customData |-> session.customData]

\* what a suspended generateCrashReportPayload returns when it resumes now
payloadOf(task, session, no) ==
  LET own == task.of = <<no>> IN
  CrashReportPayload(task.error, task.stackFrames,
                     IF own THEN session.tags ELSE task.tags,
                     task.user, task.customData,
                     IF own THEN session.breadcrumbs ELSE task.breadcrumbs)

\* processUnhandledError adding 'Fatal' to a copy of the tags, for this payload only
processUnhandledErrorTaggingCopy(session, error, isFatal, no, level) ==
  IF ~error.present \/ error.stack = <<>>
    THEN [session |-> session, outcome |-> "resolved", tasks |-> <<>>]
  ELSE LET stack == cleanedStackFrames(parseErrorStack(error))
           marked == IF isFatal THEN [session EXCEPT !.tags = SetAdd(@, "Fatal")]
                     ELSE session
       IN IF bridge = "absent"
            THEN [session |-> session, outcome |-> "rejected", tasks |-> <<>>]
            ELSE [session |-> session, outcome |-> "pending",
                  tasks |-> <<generateCrashReportPayload(
                                error, stack, marked, <<>>,
                                "processUnhandledError", no, level, isFatal)>>]

\* processUnhandledError from its call to its first await: the session it
\* leaves, how its promise stands, and the call it is suspended on
processUnhandledError(session, error, isFatal, no, level) ==
  IF ~error.present \/ error.stack = <<>>
    THEN [session |-> session, outcome |-> "resolved", tasks |-> <<>>]
  ELSE LET stack == cleanedStackFrames(parseErrorStack(error))
           marked == IF isFatal THEN [session EXCEPT !.tags = SetAdd(@, "Fatal")]
                     ELSE session
       IN IF bridge = "absent"
            \* RaygunNativeBridge.getEnvironmentInfo of an absent bridge: TypeError
            THEN [session |-> marked, outcome |-> "rejected", tasks |-> <<>>]
            ELSE [session |-> marked, outcome |-> "pending",
                  tasks |-> <<generateCrashReportPayload(
                                error, stack, marked, <<sessionNo>>,
                                "processUnhandledError", no, level, isFatal)>>]

\* the payload goes out whatever the hook returns
modifiedPayloadIgnoringHook(payload) == <<payload>>

\* the hook of the options, applied: <<>> for a falsy result
modifiedPayload(payload) ==
  IF GlobalOptions.onBeforeSend = "falsy" THEN <<>> ELSE <<payload>>

\* processUnhandledError after the payload is built: the reports it hands over
sendOf(task, payload) ==
  IF modifiedPayload(payload) = <<>> THEN <<>>
  ELSE << [no |-> task.no, level |-> task.level, isFatal |-> task.isFatal,
           via |-> IF GlobalOptions.enableNativeCrashReporting
                     THEN "RaygunNativeBridge.sendCrashReport"
                     ELSE "transport.sendCrashReport",
           payload |-> modifiedPayload(payload)[1]] >>

\* an error reaches the global handler: the wrapper init installed last runs
globalHandlerUpTo(most, error, isFatal) ==
  /\ handlers > 0
  /\ errors < most
  /\ errors' = errors + 1
  /\ LET r == processUnhandledError(curSession, error, isFatal, errors + 1, handlers) IN
       /\ curSession' = r.session
       /\ errTasks' = errTasks \o r.tasks
       /\ clientCall' = ClientCalled("globalHandler", r.outcome)
       \* nothing to report: every wrapper returns from its await and calls the
       \* handler it replaced, down to the first one; a rejected
       \* processUnhandledError throws out of the wrapper's await instead
       /\ prevHandled' = (errors + 1 :> IF r.outcome = "resolved" THEN 1 ELSE 0) @@ prevHandled
  /\ UNCHANGED <<now, rumVars, legacyVars, initVars, basedIds, sessionNo, crashReports, built>>
  /\ Observe(seen)

globalHandler(error, isFatal) == globalHandlerUpTo(MaxErrors, error, isFatal)

\* rejection tracking reports an unhandled rejection
processUnhandledRejection(error) ==
  /\ handlers > 0
  /\ errors < MaxErrors
  /\ errors' = errors + 1
  /\ LET r == processUnhandledError(curSession, error, FALSE, errors + 1, 0) IN
       /\ curSession' = r.session
       /\ errTasks' = errTasks \o r.tasks
       /\ clientCall' = ClientCalled("processUnhandledRejection", r.outcome)
  /\ UNCHANGED <<now, rumVars, legacyVars, initVars, basedIds, sessionNo, crashReports, built, prevHandled>>
  /\ Observe(seen)

\* sendCustomError(error, customData, tags) after its parameters are told
\* apart: customData is <<>> for none, tags is the array given
sendCustomError(error, customData, tags, fails) ==
  /\ errors < MaxErrors
  /\ errors' = errors + 1
  /\ LET withData == IF customData # <<>>
                       THEN [curSession EXCEPT !.customData = Assign(@, customData[1])]
                       ELSE curSession
         withTags == IF tags # <<>> THEN [withData EXCEPT !.tags = SetAddAll(@, tags)]
                     ELSE withData
     IN IF customData # <<>> /\ NativeMirror(fails) = "threw"
          THEN /\ curSession' = withData
               /\ clientCall' = ClientCalled("sendCustomError", "rejected")
               /\ UNCHANGED errTasks
        ELSE IF tags # <<>> /\ NativeMirror(fails) = "threw"
          THEN /\ curSession' = withTags
               /\ clientCall' = ClientCalled("sendCustomError", "rejected")
               /\ UNCHANGED errTasks
        ELSE LET r == processUnhandledError(withTags, error, FALSE, errors + 1, 0) IN
               /\ curSession' = r.session
               /\ errTasks' = errTasks \o r.tasks
               /\ clientCall' = ClientCalled("sendCustomError", r.outcome)
  /\ UNCHANGED <<now, rumVars, legacyVars, initVars, basedIds, sessionNo, crashReports, built, prevHandled>>
  /\ Observe(seen)

\* the application calls the exported generateCrashReportPayload
generateCrashReportPayloadCalled(error, stackFrames, session) ==
  /\ errors < MaxErrors
  /\ errors' = errors + 1
  /\ IF bridge = "absent"
       THEN /\ clientCall' = ClientCalled("generateCrashReportPayload", "rejected")
            /\ UNCHANGED errTasks
       ELSE /\ clientCall' = ClientCalled("generateCrashReportPayload", "pending")
            /\ errTasks' = Append(errTasks,
                 generateCrashReportPayload(error, stackFrames, session, <<>>,
                                            "application", errors + 1, 0, FALSE))
  /\ built' = <<>>
  /\ UNCHANGED <<now, rumVars, legacyVars, initVars, curSession, basedIds, sessionNo, crashReports, prevHandled>>
  /\ Observe(seen)

\* getEnvironmentInfo() has answered: generateCrashReportPayload returns, and
\* its caller runs on from its await. A wrapper of the global handler whose
\* processUnhandledError has ended calls the handler it replaced.
environmentInfoAnswers(i) ==
  /\ i \in 1 .. Len(errTasks)
  /\ LET task == errTasks[i]
         others == SubSeq(errTasks, 1, i - 1) \o SubSeq(errTasks, i + 1, Len(errTasks))
         payload == payloadOf(task, curSession, sessionNo)
     IN IF ~GlobalOptions.defined
          \* GlobalOptions.version of the undefined options: TypeError
          THEN /\ clientCall' = ClientCalled(task.caller, "rejected")
               /\ errTasks' = others
               /\ UNCHANGED <<curSession, crashReports, built, prevHandled>>
        ELSE IF task.caller = "application"
          THEN /\ built' = <<[error |-> task.error, stackFrames |-> task.stackFrames,
                              tags |-> task.tags, payload |-> payload]>>
               /\ clientCall' = ClientCalled(task.caller, "resolved")
               /\ errTasks' = others
               /\ UNCHANGED <<curSession, crashReports, prevHandled>>
        ELSE /\ crashReports' = crashReports \o sendOf(task, payload)
             /\ built' = built
             /\ IF task.level > 1
                  THEN LET r == processUnhandledError(curSession, task.error, task.isFatal,
                                                      task.no, task.level - 1)
                       IN /\ curSession' = r.session
                          /\ errTasks' = others \o r.tasks
                          /\ clientCall' = ClientCalled("globalHandler", r.outcome)
                          /\ UNCHANGED prevHandled
                  ELSE /\ errTasks' = others
                       /\ clientCall' = ClientCalled(task.caller, "resolved")
                       /\ prevHandled' = IF task.level = 1
                                           THEN [prevHandled EXCEPT ![task.no] = @ + 1]
                                           ELSE prevHandled
                       /\ UNCHANGED curSession
  /\ UNCHANGED <<now, rumVars, legacyVars, initVars, basedIds, sessionNo, errors>>
  /\ Observe(SubSeq(seen, 1, i - 1) \o SubSeq(seen, i + 1, Len(seen)))

SessionInputs ==
  { [tags |-> t, customData |-> <<>>, breadcrumbs |-> <<>>,
     user |-> [identifier |-> <<"carol">>]] : t \in {<<>>, <<"x">>, <<"y", "x">>} }
StackFramesInputs ==
  { ArrayOf(<<FrameA>>), ArrayOf(<<FrameB, FrameA>>), NotArray(FrameA) }
PayloadErrorInputs == { NoError, [present |-> TRUE, message |-> "boom", stack |-> <<FrameA>>] }
\* the options of a client that reports through the JS transport
PlainOptions ==
  [enableNativeCrashReporting |-> FALSE, enableRUM |-> FALSE, onBeforeSend |-> "undefined"]

ErrorNext ==
  \/ \E options \in ErrorInitOptions : init(options)
  \/ \E i \in 1 .. MaxInits : initResumes(i)
  \/ \E error \in ErrorInputs, isFatal \in FatalInputs : globalHandler(error, isFatal)
  \/ \E error \in ErrorInputs : processUnhandledRejection(error)
  \/ \E error \in ErrorInputs, customData \in {<<>>, <<[k1 |-> "v1"]>>},
        tags \in {<<>>} \cup TagInputs, fails \in BOOLEAN :
       sendCustomError(error, customData, tags, fails)
  \/ \E i \in 1 .. MaxErrors : environmentInfoAnswers(i)

PayloadNext ==
  \/ init(PlainOptions)
  \/ \E error \in PayloadErrorInputs, stackFrames \in StackFramesInputs, session \in SessionInputs :
       generateCrashReportPayloadCalled(error, stackFrames, session)
  \/ \E i \in 1 .. MaxErrors : environmentInfoAnswers(i)

\* an error is being processed while the application goes on changing the
\* session
Boom == [present |-> TRUE, message |-> "boom", stack |-> <<FrameA, FrameB>>]

SnapshotNext ==
  \/ init(PlainOptions)
  \/ \E isFatal \in FatalInputs : globalHandler(Boom, isFatal)
  \/ \E i \in 1 .. MaxErrors : environmentInfoAnswers(i)
  \/ addTag(<<"a">>, FALSE)
  \/ setUser([type |-> "string", value |-> <<"alice">>], FALSE)
  \/ addCustomData([k1 |-> "v1"], FALSE)
  \/ \E details \in BreadcrumbDetails : recordBreadcrumb("tapped", details, FALSE)
  \/ clearSession(FALSE)

\* fatal and other errors, one after the other, in sessions that are cleared
FatalNext ==
  \/ init(PlainOptions)
  \/ /\ errTasks = <<>>
     /\ \E isFatal \in FatalInputs : globalHandlerUpTo(MaxFatalErrors, Boom, isFatal)
  \/ \E i \in 1 .. MaxFatalErrors : environmentInfoAnswers(i)
  \/ clearSession(FALSE)

----------------------------------------------------------------------------
(* The specifications *)

Init == RumInit /\ LegacyInit /\ ClientInit
Next == RumNext \/ LegacyNext \/ ClientNext \/ ErrorNext \/ PayloadNext
Spec == Init /\ [][Next]_vars

\* the monitor with one source of events at a time
\* both monitors read osVersion and platform off the bridge when their module
\* loads: where a monitor runs, the bridge is present
MonitorInit == Init /\ bridge = "present"

SessionSpec == MonitorInit /\ [][LifecycleNext \/ CustomNext]_vars
ViewSpec == MonitorInit /\ [][(\E t \in Times : Tick(t)) \/ OnSessionEnd \/ ViewNext]_vars
NetworkSpec == MonitorInit /\ [][(\E t \in Times : Tick(t)) \/ NetworkNext]_vars

\* the earlier monitor, and the client
LegacySpec == MonitorInit /\ [][LegacyNext]_vars
ClientSpec == Init /\ [][ClientNext]_vars
ErrorSpec == Init /\ [][ErrorNext]_vars
PayloadSpec == Init /\ [][PayloadNext]_vars
MutatorSpec == Init /\ [][MutatorNext]_vars
SnapshotSpec == Init /\ [][SnapshotNext]_vars
FatalSpec == Init /\ [][FatalNext]_vars

\* the signals of the native side. An application runs one form of the
\* monitor, this one or the earlier one: the signals reach the one that is
\* still as its construction left it while the other has been at work
RumUntouched == lastCall.op = "constructor"

LegacyUntouched ==
  /\ legacyListening
  /\ legacySent = <<>>
  /\ legacy.lastActiveAt = SessionRotateThreshold

RumSignalNext ==
  \/ OnSessionPause
  \/ OnSessionResume
  \/ OnSessionEnd
  \/ \E t \in {0, 1} : OnViewLoading(<<"Home">>, t) \/ OnViewLoaded(<<"Home">>, t)

LegacySignalNext ==
  \/ \E d \in CustomDurations : LegacyOnStart(<<"Home">>, d)
  \/ markLastActiveTime
  \/ LegacyOnResume
  \/ LegacyOnDestroy
  \/ \E i \in 1 .. MaxTasks : LegacyFetchSettles(i)

SignalNext ==
  \/ \E t \in Times : Tick(t)
  \/ LegacyUntouched /\ RumSignalNext
  \/ RumUntouched /\ LegacySignalNext

SignalSpec == MonitorInit /\ [][SignalNext]_vars

----------------------------------------------------------------------------
(* What was sent since the last call began, and the calls that hand a timing
   event to transmitRealUserMonitoringEvent *)

SentSince == SubSeq(sent, lastCall.sentBefore + 1, Len(sent))

\* the last call reached transmitRealUserMonitoringEvent with a timing event
TransmitCalled ==
  /\ lastCall.op \in {"sendCustomRUMEvent", "viewFinishesLoading", "handleResponse"}
  /\ lastCall.outcome # "resolved"

\* C1: a transmit call made after more than 30 minutes of idleness is not
\* rejected, and what it sends is SessionEnd under the old session id, then
\* SessionStart under a different, new id, then the triggering event under the
\* new id, each once and in that order.
C1_IdleTimeoutRotation ==
  (TransmitCalled /\ lastCall.expired) =>
    /\ lastCall.outcome = "pending"
    /\ Len(SentSince) \in 1 .. 3
    /\ SentSince[1].type = "SessionEnd"
    /\ SentSince[1].sessionId = lastCall.idBefore
    /\ Len(SentSince) >= 2 =>
         /\ SentSince[2].type = "SessionStart"
         /\ SentSince[2].sessionId # lastCall.idBefore
         /\ SentSince[2].sessionId = rum.RealUserMonitoringSessionId
    /\ Len(SentSince) = 3 =>
         /\ SentSince[3].type = "EventTiming"
         /\ SentSince[3].sessionId = SentSince[2].sessionId

\* C2: once a SessionEnd carrying session id s has been sent, no payload sent
\* afterwards carries s.
C2_NoEventAfterSessionEnd ==
  \A i, j \in 1 .. Len(sent) :
    (i < j /\ sent[i].type = "SessionEnd") => sent[j].sessionId # sent[i].sessionId

\* C3: every correlation id has at most one NetworkCall event emitted for it,
\* and after handleResponse ran for an object its id has no entry in the
\* pending-request map.
C3_OneEventAndEntryRemoved ==
  /\ \A id \in DOMAIN emittedFor : emittedFor[id] <= 1
  /\ lastCall.op = "handleResponse" => xhr[lastCall.xhr] \notin DOMAIN rum.requests

\* C4: a send or response callback for an object whose last open() named a url
\* of the ignore list sends nothing.
C4_IgnoredUrlNeverReported ==
  (/\ lastCall.op \in {"handleRequestSend", "handleResponse"}
   /\ opened[lastCall.xhr] = "ignored") => SentSince = <<>>

\* C5: viewFinishesLoading(X, t1) sends nothing when X is not loading, and when
\* X began loading at t0 it sends exactly one ViewLoaded timing whose duration is
\* round(t1 - t0).
C5_ViewLoadedDuration ==
  [][\A v \in ViewNames, t1 \in ViewTimes :
       (listening /\ OnViewLoaded(v, t1)) =>
         IF v \in DOMAIN rum.loadingViews
           THEN /\ Len(sent') = Len(sent) + 1
                /\ sent'[Len(sent')].type = "EventTiming"
                /\ sent'[Len(sent')].data.type = "ViewLoaded"
                /\ ~sent'[Len(sent')].data.nan
                /\ sent'[Len(sent')].data.duration =
                     Math_round(t1 - rum.loadingViews[v])
           ELSE sent' = sent]_vars

\* a signal the monitor registered a listener for arrives
RumSignal ==
  \/ OnSessionPause
  \/ OnSessionResume
  \/ OnSessionEnd
  \/ \E v \in ViewNames, t \in ViewTimes : OnViewLoading(v, t) \/ OnViewLoaded(v, t)

LegacySignal ==
  \/ \E d \in CustomDurations : LegacyOnStart(<<"Home">>, d)
  \/ markLastActiveTime
  \/ LegacyOnResume
  \/ LegacyOnDestroy

\* C17: once the session-end (destroy) signal has been delivered, a later pause,
\* resume, view-loading, view-loaded or second session-end signal changes no
\* state of the monitor and sends nothing; the same holds for the earlier
\* monitor after its destroy signal.
C17_NoListenerAfterDestroy ==
  [][/\ (lastCall.ended /\ RumSignal) =>
          /\ lastCall'.outcome = "no listener"
          /\ UNCHANGED <<rum, guids, sent, tasks, listening>>
     /\ (~legacyListening /\ LegacySignal) => UNCHANGED legacyVars]_vars

C17_SignalsAfterDestroy ==
  /\ lastCall.ended
  /\ lastCall.op = "signal"
  /\ DOMAIN rum.loadingViews # {}
  /\ Len(sent) > 0

\* C19: the pending-view map holds one record per view name, and a
\* viewBeginsLoading for a view that is already loading leaves the stored start
\* time, and everything else the monitor holds, as it was.
C19_FirstStartTimeKept ==
  [][\A v \in ViewNames, t \in ViewTimes :
       (listening /\ v \in DOMAIN rum.loadingViews /\ OnViewLoading(v, t)) =>
         /\ DOMAIN rum'.loadingViews = DOMAIN rum.loadingViews
         /\ rum'.loadingViews[v] = rum.loadingViews[v]
         /\ UNCHANGED <<rum, sent, tasks>>]_vars

C19_BeganLoadingTwice ==
  /\ lastCall.op = "viewBeginsLoading"
  /\ lastCall.outcome = "already loading"
  /\ \E v \in DOMAIN rum.loadingViews : rum.loadingViews[v] = 1

\* C20: viewFinishesLoading for a view that is loading removes its record
\* whatever the recorded start time, so that a second viewFinishesLoading sends
\* nothing and a later viewBeginsLoading records its own start time.
C20_FinishRemovesRecord ==
  [][\A v \in ViewNames, t \in ViewTimes :
       (listening /\ v \in DOMAIN rum.loadingViews /\ OnViewLoaded(v, t)) =>
         v \notin DOMAIN rum'.loadingViews]_vars

\* C21: a transmitRealUserMonitoringEvent call made while the session is not
\* expired sets lastSessionInteractionTime to now, keeps the session id, and hands
\* to fetch the triggering event alone, under that id (no SessionEnd, no
\* SessionStart, nothing left suspended).
C21_FreshTransmitOnlyMarks ==
  [][LET last == sent'[Len(sent')]
         onlyThis(type) ==
           /\ rum'.lastSessionInteractionTime = now
           /\ rum'.RealUserMonitoringSessionId = rum.RealUserMonitoringSessionId
           /\ sent' = Append(sent, last)
           /\ last.type = type
           /\ last.sessionId = rum.RealUserMonitoringSessionId
           /\ tasks' = IF type = "SessionEnd" THEN Append(tasks, tasks'[Len(tasks')])
                       ELSE tasks
     IN /\ \A e \in CustomEventTypes, n \in CustomNames, d \in CustomDurations :
             (/\ ~isExpired(Ctx)
              /\ sendCustomRUMEvent(e, n, d)
              /\ lastCall'.outcome # "resolved") => onlyThis("EventTiming")
        /\ (~isExpired(Ctx) /\ listening /\ OnSessionResume) => onlyThis("SessionEnd")]_vars

C21_FreshTransmitSeen ==
  /\ lastCall.op = "sendCustomRUMEvent"
  /\ lastCall.outcome = "pending"
  /\ ~lastCall.expired
  /\ now = SessionRotateThreshold + 1
  /\ rum.lastSessionInteractionTime = now
  /\ Len(sent) = lastCall.sentBefore + 1

\* C22: when the bridge call of a session mutator (addTag, setUser,
\* addCustomData, updateCustomData, recordBreadcrumb, clearSession) throws, the
\* session in memory holds the mutation all the same.
C22_MutationSurvivesMirrorFailure ==
  [][clientCall'.outcome = "threw" =>
       /\ \A tags \in TagInputs, fails \in BOOLEAN :
            addTag(tags, fails) =>
              /\ \A i \in 1 .. Len(tags) :
                   \E j \in 1 .. Len(curSession'.tags) : curSession'.tags[j] = tags[i]
              /\ [curSession' EXCEPT !.tags = curSession.tags] = curSession
       /\ \A user \in UserInputs, fails \in BOOLEAN :
            setUser(user, fails) =>
              curSession' = [curSession EXCEPT !.user = userObjOf(user, basedIds)]
       /\ \A customData \in CustomDataInputs, fails \in BOOLEAN :
            addCustomData(customData, fails) =>
              curSession' = [curSession EXCEPT !.customData = Assign(@, customData)]
       /\ \A updater \in Updaters, fails \in BOOLEAN :
            updateCustomData(updater, fails) =>
              curSession' = [curSession EXCEPT !.customData = ApplyUpdater(updater, @)]
       /\ \A message \in BreadcrumbMessages, details \in BreadcrumbDetails, fails \in BOOLEAN :
            recordBreadcrumb(message, details, fails) =>
              /\ Len(curSession'.breadcrumbs) = Len(curSession.breadcrumbs) + 1
              /\ curSession'.breadcrumbs[Len(curSession'.breadcrumbs)].message = message
       /\ \A fails \in BOOLEAN :
            clearSession(fails) => curSession' = getCleanSession(basedIds)]_vars

\* the bridge method of addTag threw, and the tag is in the session
C22_TagKeptAfterBridgeThrew ==
  /\ clientCall.op = "addTag"
  /\ clientCall.outcome = "threw"
  /\ ~clientCall.dirtyBefore
  /\ GlobalOptions.defined /\ GlobalOptions.enableNativeCrashReporting
  /\ bridge = "present"
  /\ curSession.tags = <<"React Native", "a">>

\* C23: within a session (between two clearSession calls) the breadcrumbs only
\* grow at the end: recordBreadcrumb appends exactly one element, the one it was
\* called with, and every other operation leaves the sequence as it is.
C23_BreadcrumbsAppendOnly ==
  [][sessionNo' = sessionNo =>
       LET before == curSession.breadcrumbs
           after == curSession'.breadcrumbs
       IN /\ Len(after) >= Len(before)
          /\ SubSeq(after, 1, Len(before)) = before
          /\ \A message \in BreadcrumbMessages, details \in BreadcrumbDetails,
                fails \in BOOLEAN :
               recordBreadcrumb(message, details, fails) =>
                 /\ Len(after) = Len(before) + 1
                 /\ after[Len(after)].message = message
                 /\ after[Len(after)].category = details.category
          /\ clientCall'.op # "recordBreadcrumb" => after = before]_vars

\* two different breadcrumbs, in the order they were recorded
C23_SecondBreadcrumbAppended ==
  /\ clientCall.op = "recordBreadcrumb"
  /\ Len(curSession.breadcrumbs) = 2
  /\ curSession.breadcrumbs[1].message = "tapped"
  /\ curSession.breadcrumbs[2].message = "scrolled"

\* C24: the payload of a crash report is a snapshot of the session at one
\* instant: whatever addTag, recordBreadcrumb, setUser, addCustomData or
\* clearSession did while generateCrashReportPayload was suspended, Tags,
\* Breadcrumbs, User and UserCustomData of the payload are those of one value the
\* session held between the call and its return; and a report handed over never
\* changes.
C24_PayloadIsOneSnapshot ==
  [][/\ \A i \in 1 .. Len(errTasks) :
          (environmentInfoAnswers(i) /\ Len(crashReports') > Len(crashReports)) =>
            \E session \in seen[i] :
              crashReports'[Len(crashReports')].payload =
                CrashReportPayload(errTasks[i].error, errTasks[i].stackFrames,
                                   session.tags, session.user, session.customData,
                                   session.breadcrumbs)
     /\ SubSeq(crashReports', 1, Len(crashReports)) = crashReports]_vars

\* C25: however rotations interleave, every session id has at most one
\* SessionStart and at most one SessionEnd sent under it, its SessionStart is
\* sent before its SessionEnd, and a rotation sends its SessionEnd before it
\* makes its SessionStart (every SessionStart but the constructor's has a
\* SessionEnd before it).
C25_OneStartOneEndPerSession ==
  /\ \A i, j \in 1 .. Len(sent) :
       (/\ sent[i].type \in {"SessionStart", "SessionEnd"}
        /\ sent[i].type = sent[j].type
        /\ sent[i].sessionId = sent[j].sessionId) => i = j
  /\ \A j \in 1 .. Len(sent) :
       sent[j].type = "SessionEnd" =>
         \E i \in 1 .. j - 1 :
           sent[i].type = "SessionStart" /\ sent[i].sessionId = sent[j].sessionId
  /\ \A j \in 2 .. Len(sent) :
       sent[j].type = "SessionStart" =>
         \E i \in 1 .. j - 1 : sent[i].type = "SessionEnd"

\* C26: a NetworkCall event is sent for a request only after its open, its send
\* and its response were seen, in that order: it is named '<method> <url>' as
\* stored at the open, timestamped at the send time, and its duration is the
\* response time minus the send time, a number that is not negative; a
\* response for a request with no recorded send time sends nothing.
C26_NetworkCallAfterSend ==
  [][\A x \in Xhrs :
       (handleResponse(x) /\ xhr[x] \in DOMAIN rum.requests) =>
         LET requestMeta == rum.requests[xhr[x]] IN
         IF requestMeta.sendTime = NoTime
           THEN sent' = sent
           ELSE Len(sent') > Len(sent) =>
                  LET event == sent'[Len(sent')] IN
                  /\ event.type = "EventTiming"
                  /\ event.data.type = "NetworkCall"
                  /\ event.data.name = requestMeta.name
                  /\ event.timestamp = requestMeta.sendTime[1]
                  /\ ~event.data.nan
                  /\ event.data.duration = now - requestMeta.sendTime[1]
                  /\ event.data.duration >= 0]_vars

\* C27: the correlation id handleRequestOpen assigns is not the id of a request
\* that is still pending (opened on another object and not answered yet), and
\* the open leaves the RequestMeta of every pending request as it was.
C27_FreshCorrelationId ==
  [][\A m \in Methods, u \in Urls, x \in Xhrs :
       (handleRequestOpen(m, u, x) /\ ~shouldIgnoreURL(u, ignoredURLs)) =>
         \A y \in Xhrs \ {x} :
           opened[y] = "monitored" =>
             /\ xhr'[x] # xhr[y]
             /\ rum'.requests[xhr[y]] = rum.requests[xhr[y]]]_vars

\* C28: for every error the global handler receives, the handler that was
\* installed before is called exactly once, and only after the processing of
\* the error has ended: not while a call is suspended for the error, and once
\* when none is left, also for an error without a stack and for a report the
\* hook suppressed.
C28_PreviousHandlerCalledOnce ==
  \A no \in DOMAIN prevHandled :
    IF \E i \in 1 .. Len(errTasks) : errTasks[i].no = no
      THEN prevHandled[no] = 0
      ELSE prevHandled[no] = 1

\* C29: an init call that returns false because the native side is already
\* initialized has no effect: neither its first segment, up to the await of
\* hasInitialized(), nor its second changes the options in force, the installed
\* error handlers or the RUM monitor.
C29_RefusedInitChangesNothing ==
  [][/\ \A options \in ErrorInitOptions :
          (/\ init(options)
           /\ Len(initTasks') > Len(initTasks)
           /\ initTasks'[Len(initTasks')].alreadyInitialized) =>
            UNCHANGED <<GlobalOptions, handlers, rumSetups, nativeInitialized>>
     /\ \A i \in 1 .. Len(initTasks) :
          (initResumes(i) /\ initTasks[i].alreadyInitialized) =>
            UNCHANGED <<GlobalOptions, handlers, rumSetups, nativeInitialized>>]_vars

HasFatal(tags) == \E i \in 1 .. Len(tags) : tags[i] = "Fatal"

\* C30: processing a fatal error puts the tag 'Fatal' into the current session
\* before the payload is built; the tag stays in the session until clearSession
\* replaces it, and every crash report built from that session afterwards, for
\* a fatal error or not, carries 'Fatal' in its Tags.
C30_FatalTagStays ==
  [][/\ (globalHandlerUpTo(MaxFatalErrors, Boom, TRUE) /\ bridge = "present") =>
          /\ HasFatal(curSession'.tags)
          /\ HasFatal(errTasks'[Len(errTasks')].tags)
     /\ (HasFatal(curSession.tags) /\ sessionNo' = sessionNo) => HasFatal(curSession'.tags)
     /\ \A i \in 1 .. Len(errTasks) :
          (/\ environmentInfoAnswers(i)
           /\ Len(crashReports') > Len(crashReports)
           /\ errTasks[i].of = <<sessionNo>>
           /\ HasFatal(curSession.tags)) =>
            HasFatal(crashReports'[Len(crashReports')].payload.Tags)]_vars

\* the report of a fatal error, and after it the report of an error that was
\* not fatal, which carries the tag too
C30_LaterReportTaggedFatal ==
  /\ Len(crashReports) = 2
  /\ crashReports[1].isFatal /\ HasFatal(crashReports[1].payload.Tags)
  /\ crashReports[1].no = 1
  /\ ~crashReports[2].isFatal /\ HasFatal(crashReports[2].payload.Tags)
  /\ crashReports[2].no = 2
  /\ errTasks = <<>>

\* C6: after clearSession, whatever the session held before and however the
\* bridge call ended, the user identifier starts with 'anonymous-', breadcrumbs
\* and customData are empty, and the tags are exactly the one default tag
\* 'React Native'.
C6_ClearSessionResets ==
  clientCall.op = "clearSession" =>
    /\ Head(curSession.user.identifier) = "anonymous-"
    /\ DOMAIN curSession.user = {"identifier"}
    /\ curSession.breadcrumbs = <<>>
    /\ curSession.customData = <<>>
    /\ curSession.tags = <<"React Native">>

\* clearSession found a dirty session, and its bridge call threw
C6_ClearedDirtySession ==
  /\ clientCall.op = "clearSession"
  /\ clientCall.dirtyBefore
  /\ clientCall.outcome = "threw"

\* C6 as stated: after clearSession the identifier starts with 'anonymous-' and
\* tags, breadcrumbs and customData are all empty.
C6_ClearSessionEmptiesAll ==
  clientCall.op = "clearSession" =>
    /\ Head(curSession.user.identifier) = "anonymous-"
    /\ curSession.tags = <<>>
    /\ curSession.breadcrumbs = <<>>
    /\ curSession.customData = <<>>

\* C7: a transmit call is never rejected, in any session state, and it sends
\* its triggering event once: at the call itself when the session has not
\* expired, and at most once in all.
C7_TransmitNeverRaises ==
  TransmitCalled =>
    /\ lastCall.outcome = "pending"
    /\ Cardinality({i \in 1 .. Len(SentSince) : SentSince[i].type = "EventTiming"}) <= 1
    /\ ~lastCall.expired =>
         /\ Len(SentSince) = 1
         /\ SentSince[1].type = "EventTiming"

\* C8: no client operation throws into its caller or returns a promise that
\* rejects, before init or after it, with the bridge present or absent, and
\* whether or not the bridge call fails.
C8_FailOpen == clientCall.outcome \notin {"threw", "rejected"}

\* every payload of s carries a non-empty session id for which a SessionStart
\* comes earlier in s (or is the payload itself), and no id has two SessionStarts
WellStarted(s) ==
  /\ \A i \in 1 .. Len(s) :
       /\ s[i].sessionId # <<>>
       /\ \E j \in 1 .. i : s[j].type = "SessionStart" /\ s[j].sessionId = s[i].sessionId
  /\ \A i, j \in 1 .. Len(s) :
       (s[i].type = "SessionStart" /\ s[j].type = "SessionStart"
          /\ s[i].sessionId = s[j].sessionId) => i = j

\* C9: every RUM event sent, by either monitor, carries a non-empty session
\* id whose SessionStart was sent before it, and SessionStart is sent once per
\* session id.
C9_SessionStartFirst == WellStarted(sent) /\ WellStarted(legacySent)

\* C11: handleResponse for an object whose correlation id has no entry in the
\* pending-request map (never opened, or opened only with ignored urls) sends
\* nothing, is not rejected, and leaves the map and the rest of the monitor as
\* they were.
C11_UnknownResponseIsNoOp ==
  [][\A x \in Xhrs :
       (handleResponse(x) /\ xhr[x] \notin DOMAIN rum.requests) =>
         /\ sent' = sent
         /\ rum' = rum
         /\ tasks' = tasks
         /\ emittedFor' = emittedFor
         /\ lastCall'.outcome = "resolved"]_vars

\* handleResponse has run for an object opened only with an ignored url, while
\* the map held the entry of another request
C11_UnknownResponseSeen ==
  /\ lastCall.op = "handleResponse"
  /\ opened[lastCall.xhr] = "ignored"
  /\ xhr[lastCall.xhr] \notin DOMAIN rum.requests
  /\ rum.requests # <<>>

\* C12: when the onBeforeSend hook returns a falsy value for the payload of an
\* error, the step that would send it hands no crash report to the bridge or to
\* the JS transport.
C12_FalsyHookSuppressesSend ==
  [][((\E i \in 1 .. MaxErrors : environmentInfoAnswers(i))
        /\ GlobalOptions.onBeforeSend = "falsy") => crashReports' = crashReports]_vars

\* an error with a stack has been processed to its end under a falsy hook, and
\* no report has gone out
C12_SuppressedReport ==
  /\ clientCall.op = "processUnhandledError"
  /\ clientCall.outcome = "resolved"
  /\ GlobalOptions.onBeforeSend = "falsy"
  /\ errors > 0
  /\ crashReports = <<>>

\* C13: an error that is missing or has no stack, arriving through the global
\* handler, the rejection tracker or sendCustomError, sends no crash report,
\* raises nothing, and leaves the session unchanged.
C13_StacklessErrorIsNoOp ==
  [][\A error \in {e \in ErrorInputs : ~e.present \/ e.stack = <<>>} :
       (\/ \E isFatal \in FatalInputs : globalHandler(error, isFatal)
        \/ processUnhandledRejection(error)
        \/ \E customData \in {<<>>, <<[k1 |-> "v1"]>>}, tags \in {<<>>} \cup TagInputs,
              fails \in BOOLEAN : sendCustomError(error, customData, tags, fails))
       => /\ crashReports' = crashReports
          /\ errTasks' = errTasks
          /\ curSession' = curSession
          /\ clientCall'.outcome = "resolved"]_vars

\* C14: setUser replaces the session's user as a whole. An empty string gives
\* the identifier 'anonymous-' followed by the device-based id, with isAnonymous
\* true; a non-empty string s gives identifier s, isAnonymous false and empty
\* firstName, fullName and email; an identity record is stored with its own
\* field values. Nothing else of the session changes.
C14_SetUserResult ==
  [][\A user \in UserInputs, fails \in BOOLEAN :
       setUser(user, fails) =>
         LET u == curSession'.user IN
         /\ [curSession' EXCEPT !.user = curSession.user] = curSession
         /\ IF user.type = "string" /\ user.value = <<>>
              THEN /\ u.identifier = <<"anonymous-">> \o getDeviceBasedId(basedIds)
                   /\ u.isAnonymous
                   /\ DOMAIN u = {"identifier", "isAnonymous", "firstName", "fullName", "email"}
            ELSE IF user.type = "string"
              THEN u = [identifier |-> user.value, isAnonymous |-> FALSE,
                        firstName |-> "", fullName |-> "", email |-> ""]
            ELSE /\ \A k \in DOMAIN user.value : u[k] = user.value[k]
                 /\ \A k \in DOMAIN u \ DOMAIN user.value :
                      k \in {"firstName", "fullName"} /\ u[k] = ""]_vars

\* setUser with a bare string has replaced a user that had an email address
C14_UserReplaced ==
  /\ clientCall.op = "setUser"
  /\ clientCall.dirtyBefore
  /\ curSession.user.identifier = <<"alice">>
  /\ curSession.user.email = ""
  /\ curSession.tags = <<"React Native">>
  /\ curSession.customData = <<>>
  /\ curSession.breadcrumbs = <<>>

\* C15: in every reachable state the session's tag collection holds each tag
\* at most once, whatever addTag calls were made.
C15_TagsAreUnique ==
  \A i, j \in 1 .. Len(curSession.tags) :
    curSession.tags[i] = curSession.tags[j] => i = j

\* addTag was called with a tag the session already held
C15_TagAddedAgain ==
  /\ clientCall.op = "addTag"
  /\ clientCall.dirtyBefore
  /\ curSession.tags = <<"React Native", "a">>
  /\ curSession.customData = <<>>
  /\ curSession.breadcrumbs = <<>>
  /\ DOMAIN curSession.user = {"identifier"}

\* C16: the payload generateCrashReportPayload returns has the error's message
\* (empty when the error is absent), the tags of the session it was given, and
\* one StackTrace entry per frame in the order given (one entry for a single
\* frame that is not in an array), each with the frame's lineNumber.
C16_PayloadMapsInputs ==
  \A i \in 1 .. Len(built) :
    LET in == built[i]
        Details == in.payload
    IN /\ Details.Message = (IF in.error.present THEN in.error.message ELSE "")
       /\ Details.Tags = in.tags
       /\ Len(Details.StackTrace) = Len(in.stackFrames.items)
       /\ \A k \in 1 .. Len(in.stackFrames.items) :
            Details.StackTrace[k].LineNumber = in.stackFrames.items[k].lineNumber

\* a payload was built from an error with a message, two frames in an array
\* and a session with two tags
C16_PayloadBuilt ==
  /\ built # <<>>
  /\ built[1].error.present
  /\ built[1].stackFrames = ArrayOf(<<FrameB, FrameA>>)
  /\ built[1].tags = <<"y", "x">>

\* C18: whatever init calls were made, no error has more than one crash report
\* sent for it.
C18_AtMostOneReportPerError ==
  \A i, j \in 1 .. Len(crashReports) :
    crashReports[i].no = crashReports[j].no => i = j

\* C10: an explicit rotation, however long the session has been idle, is not
\* rejected; it sends SessionEnd under the current id and then SessionStart
\* under a new id that differs from it.
C10_ExplicitRotation ==
  lastCall.op = "rotateRUMSession" =>
    /\ lastCall.outcome = "pending"
    /\ Len(SentSince) \in 1 .. 2
    /\ SentSince[1].type = "SessionEnd"
    /\ SentSince[1].sessionId = lastCall.idBefore
    /\ Len(SentSince) = 2 =>
         /\ SentSince[2].type = "SessionStart"
         /\ SentSince[2].sessionId # lastCall.idBefore
         /\ SentSince[2].sessionId = rum.RealUserMonitoringSessionId

====
